---- MODULE Spec2Model ----
(***************************************************************************)
(* Model of the segment wire codec of segment/encoding.go:                 *)
(* EncodeSegments / EncodeSegment / RecursiveSubsegments on the sending    *)
(* side, DecodeSegments / DecodeInterfaces on the receiving side.          *)
(*                                                                         *)
(* A run is one of                                                         *)
(*   - a codec run: EncodeSegments(newsegs, oldsegs, srcIA, dstIA) is      *)
(*     executed statement block by statement block and the buffer it       *)
(*     returns is handed to DecodeSegments with the same oldsegs;          *)
(*   - a wire run: DecodeSegments is executed on a buffer that did not     *)
(*     come from the encoder (arbitrary records, wrong counts, cut short). *)
(* A Go run-time panic (index or slice out of range) ends the call with    *)
(* status "panic".                                                         *)
(***************************************************************************)
EXTENDS Integers, Sequences, FiniteSets, TLC

(***************************************************************************)
(* Bounds of the model.                                                    *)
(***************************************************************************)
\* total number of segment nodes (segments and their subsegments) in newsegs
MaxNewSize == 4
\* total number of segment nodes in the oldsegs of a codec run
MaxOldSize == 3
\* number of records in the buffer of a wire run
MaxRecs == 2
\* number of segment objects in the memory of a traversal run
MaxNodes == 3

(***************************************************************************)
(* Flag bits of a record (encoding.go, lines 12-20).                       *)
(***************************************************************************)
SegTypeLiteral == 0
SegTypeComposition == 1
SegTypeMask == 1
SegAcceptedFalse == 0
SegAcceptedTrue == 2
SegAcceptedMask == 2

\* x & m for a one-bit mask m (all masks of the codec are one bit wide)
BitAnd(x, m) == ((x \div m) % 2) * m

(***************************************************************************)
(* Segment model.  The package's segment types are not part of the source  *)
(* file; they are modelled from the data model: a Literal holds an ordered *)
(* list of path interfaces, a Composition an ordered list of segments.     *)
(* NilSegment is the zero value of the Segment interface (a slot of a      *)
(* freshly made []Segment).                                                *)
(***************************************************************************)
NilType == 2

NilSegment == [type |-> NilType, Interfaces |-> <<>>, Segments |-> <<>>]

FromInterfaces(interfaces) ==
  [type |-> SegTypeLiteral, Interfaces |-> interfaces, Segments |-> <<>>]

FromSegments(segments) ==
  [type |-> SegTypeComposition, Interfaces |-> <<>>, Segments |-> segments]

\* the concatenation of a sequence of sequences (halved, so that the
\* evaluation of a long sequence stays shallow)
RECURSIVE Flatten(_)
Flatten(ss) ==
  IF ss = <<>> THEN <<>>
  ELSE IF Len(ss) = 1 THEN ss[1]
  ELSE Flatten(SubSeq(ss, 1, Len(ss) \div 2)) \o
       Flatten(SubSeq(ss, Len(ss) \div 2 + 1, Len(ss)))

\* Fingerprint: a deterministic content-derived string, equal exactly for
\* structurally equal segments.  Modelled as a prefix-free serialisation
\* (variant tag, element count, elements).
RECURSIVE Fingerprint(_)
Fingerprint(seg) ==
  IF seg.type = SegTypeLiteral
  THEN <<SegTypeLiteral, Len(seg.Interfaces)>> \o
       Flatten([k \in 1..Len(seg.Interfaces) |->
                  <<seg.Interfaces[k].ID, seg.Interfaces[k].IA.I,
                    seg.Interfaces[k].IA.A>>])
  ELSE IF seg.type = SegTypeComposition
  THEN <<SegTypeComposition, Len(seg.Segments)>> \o
       Flatten([k \in 1..Len(seg.Segments) |-> Fingerprint(seg.Segments[k])])
  ELSE <<NilType>>

(***************************************************************************)
(* Big-endian fixed-width fields.  Values of the model stay below 2^31, so *)
(* the four high-order bytes of a 64-bit field are zero.                   *)
(***************************************************************************)
PutUint16(v) == <<(v \div 256) % 256, v % 256>>

Uint16(b) == b[1] * 256 + b[2]

PutUint64(v) ==
  <<0, 0, 0, 0, (v \div 16777216) % 256, (v \div 65536) % 256,
    (v \div 256) % 256, v % 256>>

Uint64(b) == ((b[5] * 256 + b[6]) * 256 + b[7]) * 256 + b[8]

\* PutUint64(uint64(ia.IAInt())): the ISD in the 16 high-order bits, the AS
\* in the 48 low-order bits
PutIA(ia) ==
  PutUint16(ia.I) \o
  <<0, 0, (ia.A \div 16777216) % 256, (ia.A \div 65536) % 256,
    (ia.A \div 256) % 256, ia.A % 256>>

\* addr.IAInt(Uint64(b)).IA()
GetIA(b) ==
  [I |-> Uint16(b), A |-> ((b[5] * 256 + b[6]) * 256 + b[7]) * 256 + b[8]]

\* the Go slice expressions b[lo:] and b[lo:hi] (0-based, hi exclusive)
From(b, lo) == SubSeq(b, lo + 1, Len(b))

Slice(b, lo, hi) == SubSeq(b, lo + 1, hi)

(***************************************************************************)
(* Encoder, pure parts.                                                    *)
(***************************************************************************)
\* a Go map read: the zero value when the key is missing
Lookup(segidx, fprint) ==
  IF fprint \in DOMAIN segidx THEN segidx[fprint] ELSE 0

\* a map write that is lost
StoreNothing(segidx, fprint, idx) == segidx

\* a Go map write
Store(segidx, fprint, idx) ==
  [f \in DOMAIN segidx \cup {fprint} |->
     IF f = fprint THEN idx ELSE segidx[f]]

EncodeInterfaces(interfaces) ==
  Flatten([k \in 1..Len(interfaces) |->
             PutUint64(interfaces[k].ID) \o PutIA(interfaces[k].IA)])

\* the flags byte without the accepted bit
EncodeFlagsTypeOnly(segtype, accepted) == segtype

EncodeFlags(segtype, accepted) ==
  (IF accepted THEN SegAcceptedTrue ELSE SegAcceptedFalse) + segtype

EncodeSegment(segment, accepted, segidx) ==
  LET optlen == 0 IN
  IF segment.type = SegTypeLiteral
  THEN <<EncodeFlags(SegTypeLiteral, accepted),
         Len(segment.Interfaces) % 256>> \o PutUint16(optlen) \o
       EncodeInterfaces(segment.Interfaces)
  ELSE <<EncodeFlags(SegTypeComposition, accepted),
         Len(segment.Segments) % 256>> \o PutUint16(optlen) \o
       Flatten([k \in 1..Len(segment.Segments) |->
          PutUint16(Lookup(segidx, Fingerprint(segment.Segments[k])) % 65536)])

\* the traversal with every child listed before its own subsegments
RECURSIVE SubsegmentsPreOrder(_)
SubsegmentsPreOrder(segment) ==
  IF segment.type = SegTypeComposition
  THEN Flatten([k \in 1..Len(segment.Segments) |->
          <<segment.Segments[k]>> \o SubsegmentsPreOrder(segment.Segments[k])])
  ELSE <<>>

RECURSIVE RecursiveSubsegments(_)
RecursiveSubsegments(segment) ==
  IF segment.type = SegTypeComposition
  THEN Flatten([k \in 1..Len(segment.Segments) |->
          RecursiveSubsegments(segment.Segments[k]) \o <<segment.Segments[k]>>])
  ELSE <<>>

\* lines 80-84: the header with numsegs still zero
EncodeHeader(src, dst) == <<0, 20, 0, 0>> \o PutIA(src) \o PutIA(dst)

\* lines 86-89: the index table of the cache (a later duplicate overwrites)
RECURSIVE OldIndex(_, _)
OldIndex(segs, k) ==
  IF k = 0 THEN <<>>
  ELSE Store(OldIndex(segs, k - 1), Fingerprint(segs[k]), k - 1)

\* numsegs written with its two bytes in the other order
PutNumsegsLittleEndian(buf, v) ==
  Slice(buf, 0, 2) \o <<v % 256, (v \div 256) % 256>> \o From(buf, 4)

\* line 123: binary.BigEndian.PutUint16(allbytes[2:], numsegs)
PutNumsegs(buf, v) == Slice(buf, 0, 2) \o PutUint16(v % 65536) \o From(buf, 4)

(***************************************************************************)
(* Decoder, pure parts.                                                    *)
(***************************************************************************)
\* a value the call did not produce (a Go nil slice has length 0)
Nothing == <<>>

ZeroIA == [I |-> 0, A |-> 0]

\* line 27: make([]Segment, numsegs)
MakeSegments(len) == [k \in 1..len |-> NilSegment]

DecodeInterfaces(b, seglen) ==
  [k \in 1..seglen |->
     [ID |-> Uint64(From(b, (k - 1) * 16)),
      IA |-> GetIA(From(b, (k - 1) * 16 + 8))]]

\* the accepted bit tested without its mask
AcceptedUnmasked(flags) == SegAcceptedTrue = flags

\* line 33
Accepted(flags) == SegAcceptedTrue = BitAnd(flags, SegAcceptedMask)

\* lines 43-54: the subsegments of a Composition record, index by index.
\* new is the newsegs slice of DecodeSegments, whose length is numsegs from
\* the start (line 27).
RECURSIVE Subsegments(_, _, _, _, _, _)
Subsegments(b, seglen, old, new, j, subsegs) ==
  IF j = seglen THEN [status |-> "ok", subsegs |-> subsegs]
  ELSE IF Len(b) < 4 + j * 2 + 2 THEN [status |-> "panic", subsegs |-> subsegs]
  ELSE LET id == Uint16(From(b, 4 + j * 2)) IN
       IF id < Len(old)
       THEN Subsegments(b, seglen, old, new, j + 1, Append(subsegs, old[id + 1]))
       ELSE IF id < Len(old) + Len(new)
       THEN Subsegments(b, seglen, old, new, j + 1,
                        Append(subsegs, new[id - Len(old) + 1]))
       ELSE [status |-> "err", subsegs |-> subsegs]

\* lines 31-57: one record at the head of b
DecodeRecord(b, old, new) ==
  LET fail(st) == [status |-> st, seg |-> NilSegment, accepted |-> FALSE,
                   rest |-> b]
  IN
  IF Len(b) < 4 THEN fail("panic")
  ELSE
    LET flags == b[1]
        segtype == BitAnd(flags, SegTypeMask)
        seglen == b[2]
        optlen == Uint16(From(b, 2))
    IN
    IF segtype = SegTypeLiteral
    THEN IF Len(b) < 4 + seglen * 16 + optlen THEN fail("panic")
         ELSE [status |-> "ok",
               seg |-> FromInterfaces(DecodeInterfaces(From(b, 4), seglen)),
               accepted |-> Accepted(flags),
               rest |-> From(b, 4 + seglen * 16 + optlen)]
    ELSE LET r == Subsegments(b, seglen, old, new, 0, <<>>) IN
         IF r.status # "ok" THEN fail(r.status)
         ELSE IF Len(b) < 4 + seglen * 2 + optlen THEN fail("panic")
         ELSE [status |-> "ok",
               seg |-> FromSegments(r.subsegs),
               accepted |-> Accepted(flags),
               rest |-> From(b, 4 + seglen * 2 + optlen)]

\* the error returned together with what was decoded so far
InvalidReferencePartial(new, acc, src, dst) ==
  [status |-> "err", newsegs |-> new, accsegs |-> acc,
   srcIA |-> src, dstIA |-> dst]

\* lines 51-52: return nil, nil, srcIA, dstIA, err
InvalidReference(new, acc, src, dst) ==
  [status |-> "err", newsegs |-> Nothing, accsegs |-> Nothing,
   srcIA |-> src, dstIA |-> dst]

\* line 62: return newsegs, accsegs, srcIA, dstIA, nil
Decoded(new, acc, src, dst) ==
  [status |-> "ok", newsegs |-> new, accsegs |-> acc,
   srcIA |-> src, dstIA |-> dst]

\* the call ended in a run-time panic: nothing is returned
Panicked == [status |-> "panic", newsegs |-> Nothing, accsegs |-> Nothing,
             srcIA |-> ZeroIA, dstIA |-> ZeroIA]

NotReturned == [status |-> "none", newsegs |-> Nothing, accsegs |-> Nothing,
                srcIA |-> ZeroIA, dstIA |-> ZeroIA]

(***************************************************************************)
(* Inputs.                                                                 *)
(***************************************************************************)
ia1 == [I |-> 1, A |-> 513]
ia2 == [I |-> 258, A |-> 3]

if1 == [ID |-> 1, IA |-> ia1]
if2 == [ID |-> 258, IA |-> ia2]

L1 == FromInterfaces(<<if1>>)
L2 == FromInterfaces(<<if2>>)

Literals == {L1, L2}

RECURSIVE Size(_)
Size(seg) ==
  LET RECURSIVE sum(_)
      sum(ss) == IF ss = <<>> THEN 0 ELSE Size(Head(ss)) + sum(Tail(ss))
  IN 1 + sum(seg.Segments)

\* the acyclic segments of at most n nodes, and the lists of segments of at
\* most n nodes in total
RECURSIVE SegmentsUpTo(_), ListsUpTo(_)
SegmentsUpTo(n) ==
  IF n <= 0 THEN {}
  ELSE Literals \cup {FromSegments(c) : c \in ListsUpTo(n - 1) \ {<<>>}}

ListsUpTo(n) ==
  {<<>>} \cup
  UNION {{<<s>> \o l : l \in ListsUpTo(n - Size(s))} : s \in SegmentsUpTo(n)}

\* the (srcIA, dstIA) pairs of a codec run
IAPairs == {<<ia1, ia2>>, <<ia2, ia1>>}

\* Records of a wire run: flags, payload and options, serialised as the
\* layout of a record prescribes.
WireIndices == 0..2

WireLiterals ==
  {[flags |-> f, ifs |-> <<if1>>, refs |-> <<>>, opts |-> <<>>] : f \in {0, 2, 4}}
  \cup {[flags |-> 6, ifs |-> <<if2, if1>>, refs |-> <<>>, opts |-> <<9>>]}

WireCompositions ==
  {[flags |-> f, ifs |-> <<>>, refs |-> r, opts |-> <<>>] :
     f \in {1, 3},
     r \in {<<a>> : a \in WireIndices} \cup {<<0, a>> : a \in WireIndices}}
  \cup {[flags |-> 7, ifs |-> <<>>, refs |-> <<>>, opts |-> <<9>>]}

WireRecords == WireLiterals \cup WireCompositions

WireRecord(r) ==
  (IF BitAnd(r.flags, SegTypeMask) = SegTypeLiteral
   THEN <<r.flags, Len(r.ifs)>> \o PutUint16(Len(r.opts)) \o
        EncodeInterfaces(r.ifs)
   ELSE <<r.flags, Len(r.refs)>> \o PutUint16(Len(r.opts)) \o
        Flatten([k \in 1..Len(r.refs) |-> PutUint16(r.refs[k])]))
  \o r.opts

WireRecordLists == UNION {[1..k -> WireRecords] : k \in 0..MaxRecs}

WireMessage(recs, count) ==
  PutNumsegs(EncodeHeader(ia1, ia2), count) \o
  Flatten([k \in 1..Len(recs) |-> WireRecord(recs[k])])

\* messages whose numsegs is the number of records, one less or one more;
\* the exact ones also with their last byte missing
WireMessages ==
  UNION {{WireMessage(recs, c) : c \in {Len(recs) - 1, Len(recs), Len(recs) + 1}
                                       \cap Nat}
         \cup {Slice(WireMessage(recs, Len(recs)), 0,
                     Len(WireMessage(recs, Len(recs))) - 1)}
         : recs \in WireRecordLists}

\* buffers that end inside the header, and a header whose hdrlen points
\* past the end of the buffer
ShortBuffers ==
  {Slice(EncodeHeader(ia1, ia2), 0, k) : k \in {0, 1, 3, 11, 19}}
  \cup {<<0, 24, 0, 0>> \o PutIA(ia1) \o PutIA(ia2)}

WireBuffers == WireMessages \cup ShortBuffers

WireOldsegs == {<<>>, <<L1>>}

(***************************************************************************)
(* State.                                                                  *)
(***************************************************************************)
VARIABLES
  pc,          \* where the run stands
  newsegs,     \* EncodeSegments: the caller's segments to send
  oldsegs,     \* the session cache, given to both calls
  srcIA,       \* EncodeSegments: parameter
  dstIA,       \* EncodeSegments: parameter
  allbytes,    \* EncodeSegments: the buffer built so far
  segidx,      \* EncodeSegments: fingerprint -> index
  currentIdx,  \* EncodeSegments: next index
  sentsegs,    \* EncodeSegments: segments of the records emitted
  sentkind,    \* which statement emitted each record of sentsegs
  pos,         \* EncodeSegments: position of the range loop in newsegs
  subsegs,     \* EncodeSegments: subsegments of newsegs[pos] still to visit
  encret,      \* what EncodeSegments returned
  wire,        \* the buffer DecodeSegments is called with
  bytes,       \* DecodeSegments: the bytes not yet consumed
  numsegs,     \* DecodeSegments: the header's count
  ias,         \* DecodeSegments: <<srcIA, dstIA>> of the header
  recvsegs,    \* DecodeSegments: its newsegs slice
  accsegs,     \* DecodeSegments: the accepted segments so far
  i,           \* DecodeSegments: loop counter
  recflags,    \* the flags byte of every record decoded so far
  decret,      \* what DecodeSegments returned
  heap,        \* traversal run: the segment objects, by reference
  root,        \* traversal run: the newseg RecursiveSubsegments is called with
  stack,       \* traversal run: the frames of RecursiveSubsegments
  travret      \* traversal run: how the call ended

encvars == <<newsegs, srcIA, dstIA, allbytes, segidx, currentIdx, sentsegs,
             sentkind, pos, subsegs, encret>>

decvars == <<bytes, numsegs, ias, recvsegs, accsegs, i, recflags, decret>>

travvars == <<heap, root, stack, travret>>

vars == <<pc, oldsegs, wire, encvars, decvars, travvars>>

NoEncret == [status |-> "none", bytes |-> Nothing, sentsegs |-> Nothing]

Locals ==
  /\ allbytes = <<>>
  /\ segidx = <<>>
  /\ currentIdx = 0
  /\ sentsegs = <<>>
  /\ sentkind = <<>>
  /\ pos = 0
  /\ subsegs = <<>>
  /\ encret = NoEncret
  /\ bytes = <<>>
  /\ numsegs = 0
  /\ ias = <<ZeroIA, ZeroIA>>
  /\ recvsegs = <<>>
  /\ accsegs = <<>>
  /\ i = 0
  /\ recflags = <<>>
  /\ decret = NotReturned

NotTraversed == [status |-> "none", segments |-> Nothing]

\* no traversal by reference in this run
NoTraversal ==
  /\ heap = <<>>
  /\ root = 0
  /\ stack = <<>>
  /\ travret = NotTraversed

\* a codec run: the call EncodeSegments(newsegs, oldsegs, srcIA, dstIA)
InitCodec ==
  /\ pc = "encode"
  /\ newsegs \in ListsUpTo(MaxNewSize)
  /\ oldsegs \in ListsUpTo(MaxOldSize)
  /\ \E ia \in IAPairs : srcIA = ia[1] /\ dstIA = ia[2]
  /\ wire = <<>>
  /\ Locals
  /\ NoTraversal

\* a wire run: the call DecodeSegments(wire, oldsegs)
InitWire ==
  /\ pc = "decode"
  /\ newsegs = <<>>
  /\ oldsegs \in WireOldsegs
  /\ srcIA = ZeroIA
  /\ dstIA = ZeroIA
  /\ wire \in WireBuffers
  /\ Locals
  /\ NoTraversal

Init == InitCodec \/ InitWire

(***************************************************************************)
(* EncodeSegments.                                                         *)
(***************************************************************************)
\* lines 80-91
EncodeSegmentsBegin ==
  /\ pc = "encode"
  /\ allbytes' = EncodeHeader(srcIA, dstIA)
  /\ segidx' = OldIndex(oldsegs, Len(oldsegs))
  /\ currentIdx' = Len(oldsegs)
  /\ sentsegs' = <<>>
  /\ sentkind' = <<>>
  /\ pos' = 1
  /\ pc' = "newsegs"
  /\ UNCHANGED <<newsegs, oldsegs, srcIA, dstIA, subsegs, encret, wire, decvars>>
  /\ UNCHANGED travvars

\* lines 93-95: the next newseg and its subsegments
EncodeRange ==
  /\ pc = "newsegs"
  /\ pos <= Len(newsegs)
  /\ subsegs' = RecursiveSubsegments(newsegs[pos])
  /\ pc' = "subsegs"
  /\ UNCHANGED <<newsegs, oldsegs, srcIA, dstIA, allbytes, segidx, currentIdx,
                 sentsegs, sentkind, pos, encret, wire, decvars>>
  /\ UNCHANGED travvars

\* lines 96-105: one subsegment
EncodeSubsegment ==
  /\ pc = "subsegs"
  /\ subsegs # <<>>
  /\ LET subseg == Head(subsegs)
         fprint == Fingerprint(subseg)
     IN IF fprint \notin DOMAIN segidx
        THEN /\ segidx' = Store(segidx, fprint, currentIdx)
             /\ currentIdx' = currentIdx + 1
             /\ allbytes' = allbytes \o EncodeSegment(subseg, FALSE, segidx')
             /\ sentsegs' = Append(sentsegs, subseg)
             /\ sentkind' = Append(sentkind, "subseg")
        ELSE UNCHANGED <<segidx, currentIdx, allbytes, sentsegs, sentkind>>
  /\ subsegs' = Tail(subsegs)
  /\ UNCHANGED <<pc, newsegs, oldsegs, srcIA, dstIA, pos, encret, wire, decvars>>
  /\ UNCHANGED travvars

\* lines 107-119: the segment itself
EncodeNewseg ==
  /\ pc = "subsegs"
  /\ subsegs = <<>>
  /\ LET newseg == newsegs[pos]
         fprint == Fingerprint(newseg)
     IN IF fprint \notin DOMAIN segidx
        THEN /\ segidx' = Store(segidx, fprint, currentIdx)
             /\ currentIdx' = currentIdx + 1
             /\ allbytes' = allbytes \o EncodeSegment(newseg, TRUE, segidx')
             /\ sentsegs' = Append(sentsegs, newseg)
             /\ sentkind' = Append(sentkind, "newseg")
             /\ pos' = pos + 1
             /\ pc' = "newsegs"
             /\ UNCHANGED encret
        ELSE LET idx == segidx[fprint] IN
             IF idx < Len(oldsegs)
             THEN /\ currentIdx' = currentIdx + 1
                  /\ allbytes' = allbytes \o
                       EncodeSegment(FromSegments(<<oldsegs[idx + 1]>>), TRUE, segidx)
                  /\ sentsegs' = Append(sentsegs, FromSegments(<<oldsegs[idx + 1]>>))
                  /\ sentkind' = Append(sentkind, "wrapper")
                  /\ pos' = pos + 1
                  /\ pc' = "newsegs"
                  /\ UNCHANGED <<segidx, encret>>
             ELSE \* oldsegs[idx]: index out of range
                  /\ currentIdx' = currentIdx + 1
                  /\ encret' = [status |-> "panic", bytes |-> Nothing,
                                sentsegs |-> Nothing]
                  /\ pc' = "done"
                  /\ UNCHANGED <<segidx, allbytes, sentsegs, sentkind, pos>>
  /\ UNCHANGED <<newsegs, oldsegs, srcIA, dstIA, subsegs, wire, decvars>>
  /\ UNCHANGED travvars

\* lines 122-124; the buffer returned is what the receiver decodes
EncodeSegmentsReturn ==
  /\ pc = "newsegs"
  /\ pos > Len(newsegs)
  /\ allbytes' = PutNumsegs(allbytes, currentIdx)
  /\ encret' = [status |-> "ok", bytes |-> allbytes', sentsegs |-> sentsegs]
  /\ wire' = allbytes'
  /\ pc' = "decode"
  /\ UNCHANGED <<newsegs, oldsegs, srcIA, dstIA, segidx, currentIdx, sentsegs,
                 sentkind, pos, subsegs, decvars>>
  /\ UNCHANGED travvars

(***************************************************************************)
(* DecodeSegments.                                                         *)
(***************************************************************************)
\* lines 23-29
DecodeSegmentsBegin ==
  /\ pc = "decode"
  /\ IF Len(wire) < 20 \/ wire[2] > Len(wire)
     THEN \* an index or a slice bound out of range
          /\ decret' = Panicked
          /\ pc' = "done"
          /\ UNCHANGED <<bytes, numsegs, ias, recvsegs, accsegs, i>>
     ELSE /\ numsegs' = Uint16(From(wire, 2))
          /\ ias' = <<GetIA(From(wire, 4)), GetIA(From(wire, 12))>>
          /\ recvsegs' = MakeSegments(numsegs')
          /\ accsegs' = <<>>
          /\ bytes' = From(wire, wire[2])
          /\ i' = 0
          /\ pc' = "records"
          /\ UNCHANGED decret
  /\ UNCHANGED <<oldsegs, wire, recflags, encvars>>
  /\ UNCHANGED travvars

\* one record, with the decoded segment also appended to the cache
DecodeSegmentsRecordCaching ==
  /\ pc = "records"
  /\ i < numsegs
  /\ LET r == DecodeRecord(bytes, oldsegs, recvsegs) IN
     IF r.status = "ok"
     THEN /\ recvsegs' = [recvsegs EXCEPT ![i + 1] = r.seg]
          /\ accsegs' = IF r.accepted THEN Append(accsegs, r.seg) ELSE accsegs
          /\ oldsegs' = Append(oldsegs, r.seg)
          /\ bytes' = r.rest
          /\ recflags' = Append(recflags, bytes[1])
          /\ i' = i + 1
          /\ UNCHANGED <<pc, decret>>
     ELSE /\ decret' = IF r.status = "err"
                       THEN InvalidReference(recvsegs, accsegs, ias[1], ias[2])
                       ELSE Panicked
          /\ pc' = "done"
          /\ UNCHANGED <<oldsegs, recvsegs, accsegs, bytes, recflags, i>>
  /\ UNCHANGED <<wire, numsegs, ias, encvars>>
  /\ UNCHANGED travvars

\* lines 30-61: one record
DecodeSegmentsRecord ==
  /\ pc = "records"
  /\ i < numsegs
  /\ LET r == DecodeRecord(bytes, oldsegs, recvsegs) IN
     IF r.status = "ok"
     THEN /\ recvsegs' = [recvsegs EXCEPT ![i + 1] = r.seg]
          /\ accsegs' = IF r.accepted THEN Append(accsegs, r.seg) ELSE accsegs
          /\ bytes' = r.rest
          /\ recflags' = Append(recflags, bytes[1])
          /\ i' = i + 1
          /\ UNCHANGED <<pc, decret>>
     ELSE /\ decret' = IF r.status = "err"
                       THEN InvalidReference(recvsegs, accsegs, ias[1], ias[2])
                       ELSE Panicked
          /\ pc' = "done"
          /\ UNCHANGED <<recvsegs, accsegs, bytes, recflags, i>>
  /\ UNCHANGED <<oldsegs, wire, numsegs, ias, encvars>>
  /\ UNCHANGED travvars

\* line 62
DecodeSegmentsReturn ==
  /\ pc = "records"
  /\ i >= numsegs
  /\ decret' = Decoded(recvsegs, accsegs, ias[1], ias[2])
  /\ pc' = "done"
  /\ UNCHANGED <<oldsegs, wire, bytes, numsegs, ias, recvsegs, accsegs, i,
                 recflags, encvars>>
  /\ UNCHANGED travvars

Next ==
  \/ EncodeSegmentsBegin
  \/ EncodeRange
  \/ EncodeSubsegment
  \/ EncodeNewseg
  \/ EncodeSegmentsReturn
  \/ DecodeSegmentsBegin
  \/ DecodeSegmentsRecord
  \/ DecodeSegmentsReturn

Spec == Init /\ [][Next]_vars

(***************************************************************************)
(* RecursiveSubsegments over segments held by reference.  A Composition's  *)
(* Segments is a slice: the objects it lists may list the Composition      *)
(* again.  A traversal run executes the call of line 95 for one newseg,    *)
(* call by call and return by return; the goroutine stack holds a bounded  *)
(* number of frames, and the run-time system ends the program when a call  *)
(* needs one more.                                                         *)
(***************************************************************************)
\* the frames the stack holds: more than any acyclic segment needs
MaxDepth == MaxNodes + 1

Nodes == 1..MaxNodes

HeapLiteral == [type |-> SegTypeLiteral, Segments |-> <<>>]

HeapComposition(children) == [type |-> SegTypeComposition, Segments |-> children]

\* every node a Literal or a Composition of one or two nodes, itself included
Heaps ==
  [Nodes -> {HeapLiteral}
            \cup {HeapComposition(<<a>>) : a \in Nodes}
            \cup {HeapComposition(<<a, b>>) : a, b \in Nodes}]

\* line 158: a call of RecursiveSubsegments(segment), at its first statement
Frame(segment) == [segment |-> segment, k |-> 1, segments |-> <<>>]

\* line 95 of EncodeSegments(<<root>>, <<>>, ...)
InitCyclic ==
  /\ pc = "traverse"
  /\ heap \in Heaps
  /\ root \in Nodes
  /\ stack = <<Frame(root)>>
  /\ travret = NotTraversed
  /\ newsegs = <<>>
  /\ oldsegs = <<>>
  /\ srcIA = ZeroIA
  /\ dstIA = ZeroIA
  /\ wire = <<>>
  /\ Locals

\* the frame on top has a child left to visit
AtCall ==
  /\ pc = "traverse"
  /\ heap[stack[Len(stack)].segment].type = SegTypeComposition
  /\ stack[Len(stack)].k <= Len(heap[stack[Len(stack)].segment].Segments)

\* line 163: the recursive call for the next child
RecursiveSubsegmentsCall ==
  /\ AtCall
  /\ Len(stack) < MaxDepth
  /\ LET top == stack[Len(stack)] IN
     stack' = Append(stack, Frame(heap[top.segment].Segments[top.k]))
  /\ UNCHANGED <<pc, oldsegs, wire, encvars, decvars, heap, root, travret>>

\* line 163: the recursive call for which the stack has no room
RecursiveSubsegmentsOverflow ==
  /\ AtCall
  /\ Len(stack) = MaxDepth
  /\ travret' = [status |-> "stack overflow", segments |-> Nothing]
  /\ pc' = "traversed"
  /\ UNCHANGED <<oldsegs, wire, encvars, decvars, heap, root, stack>>

\* lines 163-164, 166 and 168: a call returns; its caller appends the list
\* returned and then the child
RecursiveSubsegmentsReturn ==
  /\ pc = "traverse"
  /\ ~AtCall
  /\ LET top == stack[Len(stack)] IN
     IF Len(stack) = 1
     THEN /\ travret' = [status |-> "ok", segments |-> top.segments]
          /\ stack' = <<>>
          /\ pc' = "traversed"
     ELSE LET caller == stack[Len(stack) - 1] IN
          /\ stack' = [SubSeq(stack, 1, Len(stack) - 1)
                         EXCEPT ![Len(stack) - 1] =
                           [caller EXCEPT
                              !.segments = caller.segments \o top.segments \o
                                           <<top.segment>>,
                              !.k = caller.k + 1]]
          /\ UNCHANGED <<pc, travret>>
  /\ UNCHANGED <<oldsegs, wire, encvars, decvars, heap, root>>

NextCyclic ==
  \/ RecursiveSubsegmentsCall
  \/ RecursiveSubsegmentsOverflow
  \/ RecursiveSubsegmentsReturn

SpecCyclic == InitCyclic /\ [][NextCyclic]_vars

(***************************************************************************)
(* Codec runs on segments whose number of interfaces or of children is     *)
(* around the range of the one-byte seglen field.                          *)
(***************************************************************************)
WideLens == {255, 256, 257}

\* a Literal of n interfaces, all different
WideLiteral(n) == FromInterfaces([k \in 1..n |-> [ID |-> k, IA |-> ia1]])

\* a Composition of n children, all L1
WideComposition(n) == FromSegments([k \in 1..n |-> L1])

\* the literals at, one and two above the largest seglen; the compositions
\* above it
WideNewsegs ==
  UNION {{<<WideLiteral(n)>>, <<L2, WideLiteral(n)>>,
          <<FromSegments(<<WideLiteral(n)>>)>>} : n \in WideLens}
  \cup {<<WideComposition(n)>> : n \in WideLens \ {255}}

\* the call EncodeSegments(newsegs, oldsegs, srcIA, dstIA) of a wide run
InitWide ==
  /\ pc = "encode"
  /\ newsegs \in WideNewsegs
  /\ oldsegs \in WireOldsegs
  /\ \E ia \in IAPairs : srcIA = ia[1] /\ dstIA = ia[2]
  /\ wire = <<>>
  /\ Locals
  /\ NoTraversal

SpecWide == InitWide /\ [][Next]_vars

(***************************************************************************)
(* Properties.                                                             *)
(***************************************************************************)
EncodeReturned == encret.status = "ok"

\* the codec run is over: EncodeSegments returned a buffer and
\* DecodeSegments of that buffer has ended
CodecRunOver == EncodeReturned /\ pc = "done"

\* the fingerprints of a list of segments
Fingerprints(segs) == [k \in 1..Len(segs) |-> Fingerprint(segs[k])]

\* C1 (round trip): DecodeSegments of the buffer returned by EncodeSegments,
\* with the same oldsegs, succeeds and returns a newsegs list of the length
\* of sentsegs that equals it fingerprint by fingerprint, and the srcIA and
\* dstIA given to EncodeSegments.
RoundTrip ==
  CodecRunOver =>
    /\ decret.status = "ok"
    /\ Len(decret.newsegs) = Len(encret.sentsegs)
    /\ Fingerprints(decret.newsegs) = Fingerprints(encret.sentsegs)
    /\ decret.srcIA = srcIA
    /\ decret.dstIA = dstIA

\* C2 (index agreement): every index the encoder's table assigns to a
\* fingerprint holds, in the decoder's index space (oldsegs followed by the
\* decoded newsegs), a segment with that fingerprint.
IndexAgreement ==
  CodecRunOver =>
    \A fprint \in DOMAIN segidx :
      LET space == oldsegs \o decret.newsegs IN
      /\ segidx[fprint] < Len(space)
      /\ Fingerprint(space[segidx[fprint] + 1]) = fprint

\* C3 (no forward references): DecodeSegments never builds a Composition
\* from a slot of its newsegs that no earlier record has populated; a
\* reference to the current or a later record is rejected instead.
NoForwardReference ==
  \A k \in 1..Len(recvsegs) :
    \A c \in 1..Len(recvsegs[k].Segments) :
      recvsegs[k].Segments[c] # NilSegment

\* C4 (dedup idempotence): for newsegs = [a, a] with a not in oldsegs,
\* EncodeSegments completes; the last two records are the full record of a
\* and a wrapper (accepted Composition with the one index assigned to a), and
\* a is emitted in full only once.
DedupIdempotence ==
  (/\ Len(newsegs) = 2
   /\ newsegs[1] = newsegs[2]
   /\ \A k \in 1..Len(oldsegs) : Fingerprint(oldsegs[k]) # Fingerprint(newsegs[1])
   /\ encret.status # "none")
  => /\ EncodeReturned
     /\ LET a == newsegs[1]
            sent == encret.sentsegs
            n == Len(sent)
        IN /\ n >= 2
           /\ sent[n - 1] = a
           /\ sent[n] = FromSegments(<<a>>)
           /\ Cardinality({k \in 1..n : sent[k] = a}) = 1
           /\ From(encret.bytes, Len(encret.bytes) - 6) =
                <<SegAcceptedTrue + SegTypeComposition, 1, 0, 0>> \o
                PutUint16(segidx[Fingerprint(a)])

\* every record decoded so far with its accepted bit (bit 1 of flags) set
RECURSIVE FlaggedAccepted(_, _)
FlaggedAccepted(segs, flags) ==
  IF flags = <<>> THEN <<>>
  ELSE (IF (Head(flags) \div 2) % 2 = 1 THEN <<Head(segs)>> ELSE <<>>) \o
       FlaggedAccepted(Tail(segs), Tail(flags))

\* C5 (accepted filtering): on success acceptedSegments is the subsequence
\* of newSegments, in record order, of the records whose accepted bit is set.
AcceptedFiltering ==
  decret.status = "ok" =>
    /\ Len(recflags) = Len(decret.newsegs)
    /\ decret.accsegs = FlaggedAccepted(decret.newsegs, recflags)

\* a successful decode of records with the accepted bit set (one of them
\* with a reserved bit set as well) and of records with the bit clear
AcceptedFilteringWitness ==
  /\ decret.status = "ok"
  /\ \E k \in 1..Len(recflags) : recflags[k] \in {3, 6}
  /\ \E k \in 1..Len(recflags) : recflags[k] \in {0, 1, 4}
  /\ Len(decret.accsegs) >= 1
  /\ Len(decret.accsegs) < Len(decret.newsegs)

\* C6 (re-announcing a cached Composition): with oldsegs = [C] and
\* newsegs = [C], C a Composition, EncodeSegments emits one record only, the
\* accepted wrapper with the single index 0, and nothing for the
\* subsegments of C.
ReannounceCached ==
  (/\ Len(oldsegs) = 1
   /\ newsegs = oldsegs
   /\ oldsegs[1].type = SegTypeComposition
   /\ encret.status # "none")
  => /\ EncodeReturned
     /\ encret.sentsegs = <<FromSegments(<<oldsegs[1]>>)>>
     /\ From(encret.bytes, 20) =
          <<SegAcceptedTrue + SegTypeComposition, 1, 0, 0, 0, 0>>

\* the number of records in a sequence of well-formed records
RECURSIVE RecordCount(_)
RecordCount(b) ==
  IF Len(b) < 4 THEN 0
  ELSE 1 + RecordCount(From(b,
             4 + b[2] * (IF BitAnd(b[1], SegTypeMask) = SegTypeLiteral
                         THEN 16 ELSE 2) + Uint16(From(b, 2))))

\* C7 (numsegs): the numsegs field of the buffer EncodeSegments returns is
\* the number of records after the 20-byte header, so DecodeSegments never
\* reads past the end of that buffer.
NumsegsCountsRecords ==
  /\ EncodeReturned =>
       Uint16(From(encret.bytes, 2)) = RecordCount(From(encret.bytes, 20))
  /\ CodecRunOver => decret.status # "panic"

\* C8 (malformed input): DecodeSegments does not crash on a buffer that ends
\* inside the header or inside the records it declares; it returns a
\* MalformedHeaderError.
MalformedReported ==
  /\ decret.status # "panic"
  /\ (pc = "done" /\ Len(wire) < 20) => decret.status = "malformed"

\* C9 (no partial result): when DecodeSegments fails on an invalid
\* reference it stops at that record, whose payload holds an index
\* >= len(oldsegs) + numsegs, and returns neither newsegs nor accsegs.
NoPartialResult ==
  decret.status = "err" =>
    /\ Len(decret.newsegs) = 0
    /\ Len(decret.accsegs) = 0
    /\ pc = "done"
    /\ Len(recflags) = i
    /\ \E j \in 0..(bytes[2] - 1) :
         /\ Len(bytes) >= 6 + 2 * j
         /\ Uint16(From(bytes, 4 + 2 * j)) >= Len(oldsegs) + numsegs

\* the failure comes after a record was decoded and collected as accepted
NoPartialResultWitness ==
  /\ decret.status = "err"
  /\ i >= 1
  /\ accsegs # <<>>
  /\ recvsegs[1] # NilSegment

\* C10 (no failure path): EncodeSegments runs to completion on every list
\* of acyclic segments; no table or slice lookup crashes.
EncodeCompletes == encret.status # "panic"

\* C11 (read-only cache): no step of EncodeSegments or DecodeSegments,
\* successful or failed, changes oldsegs: same length, same elements, same
\* order.
CacheReadOnly == [][oldsegs' = oldsegs]_vars

\* a call has ended after reading the cache: the encoder wrapped a cached
\* segment, or the decoder resolved a reference into the cache
CacheReadOnlyWitness ==
  /\ pc = "done"
  /\ oldsegs # <<>>
  /\ \/ \E k \in 1..Len(sentkind) : sentkind[k] = "wrapper"
     \/ /\ decret.status \in {"ok", "err"}
        /\ \E k \in 1..Len(recvsegs) :
             /\ recvsegs[k].Segments # <<>>
             /\ recvsegs[k].Segments[1] = oldsegs[1]

\* the records of a buffer of well-formed records, one byte sequence each
RECURSIVE Records(_)
Records(b) ==
  IF Len(b) < 4 THEN <<>>
  ELSE LET n == 4 + b[2] * (IF BitAnd(b[1], SegTypeMask) = SegTypeLiteral
                            THEN 16 ELSE 2) + Uint16(From(b, 2))
       IN <<Slice(b, 0, n)>> \o Records(From(b, n))

\* C12 (empty cache scenario): for oldsegs = [] and
\* newsegs = [Composition([a, b])], a and b Literals of one interface each
\* with distinct interfaces, EncodeSegments emits three records: Literal a
\* (index 0, not accepted), Literal b (index 1, not accepted), the
\* Composition with indices [0, 1] (index 2, accepted), and numsegs = 3;
\* DecodeSegments of the buffer with oldsegs = [] returns three newsegs and
\* the Composition as the only accepted segment.
EmptyCacheScenario ==
  \A a, b \in Literals :
    (a # b /\ oldsegs = <<>> /\ newsegs = <<FromSegments(<<a, b>>)>>) =>
      /\ encret.status # "panic"
      /\ EncodeReturned =>
           LET recs == Records(From(encret.bytes, 20)) IN
           /\ encret.sentsegs = <<a, b, FromSegments(<<a, b>>)>>
           /\ Len(recs) = 3
           /\ Slice(recs[1], 0, 4) = <<0, 1, 0, 0>>
           /\ Slice(recs[2], 0, 4) = <<0, 1, 0, 0>>
           /\ recs[3] = <<3, 2, 0, 0, 0, 0, 0, 1>>
           /\ segidx[Fingerprint(a)] = 0
           /\ segidx[Fingerprint(b)] = 1
           /\ segidx[Fingerprint(newsegs[1])] = 2
           /\ Uint16(From(encret.bytes, 2)) = 3
      /\ pc = "done" =>
           /\ decret.status = "ok"
           /\ decret.newsegs = <<a, b, FromSegments(<<a, b>>)>>
           /\ decret.accsegs = <<FromSegments(<<a, b>>)>>

\* the scenario has run to the end of DecodeSegments
EmptyCacheScenarioWitness ==
  /\ pc = "done"
  /\ oldsegs = <<>>
  /\ newsegs = <<FromSegments(<<L1, L2>>)>>
  /\ Len(sentsegs) = 3
  /\ decret.status = "ok"

\* the positions of the accepted records among the records recs
AcceptedRecords(recs) ==
  {k \in 1..Len(recs) : BitAnd(recs[k][1], SegAcceptedMask) = SegAcceptedTrue}

\* what the lockstep of top-level inputs says of the records emitted for
\* the first n elements of newsegs
LockstepUpTo(n) ==
  LET recs == Records(From(allbytes, 20)) IN
  /\ Len(recs) = Len(sentsegs)
  /\ currentIdx = Len(oldsegs) + Len(recs)
  /\ Cardinality(AcceptedRecords(recs)) = n
  /\ \A k \in 1..Len(recs) :
       (k \in AcceptedRecords(recs)) <=> (sentkind[k] # "subseg")

\* C13 (lockstep): every EncodeSegments call produces, for each element of
\* newsegs, indexed before or not, exactly one index and one record with
\* accepted = true, in the caller's order; the accepted records are as many
\* as newsegs has elements, and the records of subsegments are not accepted.
Lockstep ==
  /\ pc = "newsegs" => LockstepUpTo(pos - 1)
  /\ encret.status # "none" => (EncodeReturned /\ LockstepUpTo(Len(newsegs)))

\* C14 (numsegs is currentIdx): at the head of the range loop and of the
\* subsegment loop currentIdx = len(oldsegs) + records appended so far
\* = len(oldsegs) + len(sentsegs), and the numsegs written is the final
\* currentIdx.
NumsegsIsCurrentIdx ==
  /\ pc \in {"newsegs", "subsegs"} =>
       /\ currentIdx = Len(oldsegs) + Len(sentsegs)
       /\ currentIdx = Len(oldsegs) + Len(Records(From(allbytes, 20)))
  /\ EncodeReturned =>
       /\ Uint16(From(encret.bytes, 2)) = currentIdx
       /\ currentIdx = Len(oldsegs) + Len(Records(From(encret.bytes, 20)))
       /\ currentIdx = Len(oldsegs) + Len(encret.sentsegs)

\* EncodeSegments returned with a non-empty cache, after subsegment, full
\* and wrapper records
NumsegsIsCurrentIdxWitness ==
  /\ EncodeReturned
  /\ oldsegs # <<>>
  /\ \E k \in 1..Len(sentkind) : sentkind[k] = "subseg"
  /\ \E k \in 1..Len(sentkind) : sentkind[k] = "wrapper"
  /\ Uint16(From(encret.bytes, 2)) = Len(oldsegs) + Len(sentsegs)

\* the fingerprints of the cache
OldFingerprints == {Fingerprint(oldsegs[k]) : k \in 1..Len(oldsegs)}

\* C15 as claimed (structural sharing): no subsegment record is emitted for
\* a subsegment whose fingerprint is that of a segment of oldsegs or of any
\* record emitted earlier in the same call, wrapper records included.
SharingWithWrappers ==
  \A k \in 1..Len(sentsegs) :
    sentkind[k] = "subseg" =>
      Fingerprint(sentsegs[k]) \notin
        OldFingerprints \cup {Fingerprint(sentsegs[m]) : m \in 1..(k - 1)}

\* C15 as amended: no subsegment record is emitted for a subsegment whose
\* fingerprint is that of a segment of oldsegs or of a subsegment record or
\* full top-level record emitted earlier in the same call (the fingerprints
\* of the index table); the subsegment keeps the index it has in the table.
\* Wrapper records do not enter the table.
SharingByIndexTable ==
  /\ \A k \in 1..Len(sentsegs) :
       sentkind[k] = "subseg" =>
         /\ Fingerprint(sentsegs[k]) \notin
              OldFingerprints \cup
              {Fingerprint(sentsegs[m]) :
                 m \in {x \in 1..(k - 1) : sentkind[x] # "wrapper"}}
         /\ Fingerprint(sentsegs[k]) \in DOMAIN segidx
         /\ segidx[Fingerprint(sentsegs[k])] = Len(oldsegs) + k - 1
  /\ (pc \in {"newsegs", "subsegs"} \/ encret.status # "none") =>
       \A fprint \in OldFingerprints :
         fprint \in DOMAIN segidx /\ segidx[fprint] < Len(oldsegs)

\* EncodeSegments returned after it skipped a subsegment that is in the
\* cache and one that an earlier record of the call introduced
SharingByIndexTableWitness ==
  /\ EncodeReturned
  /\ \E n \in 1..Len(newsegs) :
       LET children == newsegs[n].Segments IN
       /\ \E c \in 1..Len(children) :
            Fingerprint(children[c]) \in OldFingerprints
       /\ \E c \in 1..Len(children) : \E d \in (c + 1)..Len(children) :
            /\ children[c] = children[d]
            /\ Fingerprint(children[c]) \notin OldFingerprints
  /\ Len(sentkind) = 2
  /\ sentkind[1] = "subseg"

\* the segments a segment contains, directly or transitively
RECURSIVE ProperSubsegments(_)
ProperSubsegments(seg) ==
  UNION {{seg.Segments[c]} \cup ProperSubsegments(seg.Segments[c]) :
           c \in 1..Len(seg.Segments)}

\* a list holds every proper subsegment of each of its elements at an
\* earlier position
ListedBefore(list) ==
  \A b \in 1..Len(list) :
    \A s \in ProperSubsegments(list[b]) : \E a \in 1..(b - 1) : list[a] = s

\* C16 (no forward reference emitted): RecursiveSubsegments lists every
\* proper subsegment of a segment, each strictly before any segment of the
\* list that contains it; and every Composition record that EncodeSegments
\* has emitted, full record or wrapper, at index k of the table carries one
\* index per child, each less than k and each the index of a segment with
\* the child's fingerprint, assigned to that fingerprint in the index table.
EmitsNoForwardReference ==
  /\ \A n \in 1..Len(newsegs) :
       LET list == RecursiveSubsegments(newsegs[n]) IN
       /\ ListedBefore(list)
       /\ {list[a] : a \in 1..Len(list)} = ProperSubsegments(newsegs[n])
  /\ Len(allbytes) >= 20 =>
       LET recs == Records(From(allbytes, 20))
           table == oldsegs \o sentsegs
       IN /\ Len(recs) = Len(sentsegs)
          /\ \A r \in 1..Len(sentsegs) :
               LET k == Len(oldsegs) + r - 1
                   children == sentsegs[r].Segments
               IN sentsegs[r].type = SegTypeComposition =>
                    /\ recs[r][2] = Len(children)
                    /\ \A c \in 1..Len(children) :
                         LET idx == Uint16(Slice(recs[r], 2 + 2 * c, 4 + 2 * c))
                             fprint == Fingerprint(children[c])
                         IN /\ idx < k
                            /\ Fingerprint(table[idx + 1]) = fprint
                            /\ fprint \in DOMAIN segidx
                            /\ segidx[fprint] = idx

\* EncodeSegments returned after it emitted a wrapper record and a full
\* record of a Composition whose child is itself a Composition
EmitsNoForwardReferenceWitness ==
  /\ EncodeReturned
  /\ \E r \in 1..Len(sentkind) : sentkind[r] = "wrapper"
  /\ \E r \in 1..Len(sentkind) :
       /\ sentkind[r] = "newseg"
       /\ sentsegs[r].type = SegTypeComposition
       /\ sentsegs[r].Segments[1].type = SegTypeComposition

\* the nodes reachable from a set of nodes in at most n steps
RECURSIVE Reachable(_, _)
Reachable(S, n) ==
  IF n = 0 THEN S
  ELSE Reachable(S \cup UNION {{heap[x].Segments[c] : c \in 1..Len(heap[x].Segments)}
                                 : x \in S}, n - 1)

\* the nodes a node contains, directly or transitively
Contained(x) ==
  Reachable({heap[x].Segments[c] : c \in 1..Len(heap[x].Segments)}, MaxNodes)

\* root is or contains a Composition that contains itself
Cyclic == \E x \in {root} \cup Contained(root) : x \in Contained(x)

\* the segment value of an acyclic node
RECURSIVE Value(_)
Value(x) ==
  IF heap[x].type = SegTypeLiteral THEN FromInterfaces(<<>>)
  ELSE FromSegments([c \in 1..Len(heap[x].Segments) |-> Value(heap[x].Segments[c])])

\* on acyclic input the traversal by reference returns what
\* RecursiveSubsegments returns on the value, and the stack suffices
TraversalOfAcyclic ==
  (pc = "traversed" /\ ~Cyclic) =>
    /\ travret.status = "ok"
    /\ [k \in 1..Len(travret.segments) |-> Value(travret.segments[k])]
         = RecursiveSubsegments(Value(root))

\* C17 (cyclic input fails fast): when the newseg is or contains a
\* Composition that contains itself, the traversal of EncodeSegments ends
\* with CyclicSegmentError.
CyclicFailsFast ==
  (pc = "traversed" /\ Cyclic) => travret.status = "CyclicSegmentError"

\* the number of interfaces or of children whose payload EncodeSegment
\* writes for a segment, and the number of bytes it writes for each
PayloadCount(seg) ==
  IF seg.type = SegTypeLiteral THEN Len(seg.Interfaces) ELSE Len(seg.Segments)

PayloadWidth(seg) == IF seg.type = SegTypeLiteral THEN 16 ELSE 2

\* the offset in allbytes of the record emitted for sentsegs[r]
RECURSIVE RecordOffset(_)
RecordOffset(r) ==
  IF r = 1 THEN 20
  ELSE RecordOffset(r - 1) +
       4 + PayloadCount(sentsegs[r - 1]) * PayloadWidth(sentsegs[r - 1])

\* C18 (fixed-width fields hold the true values): in every record that
\* EncodeSegments has emitted the seglen byte is the number of interfaces or
\* of children whose payload is written, so that the record length implied
\* by seglen is the number of bytes emitted for the record and the records
\* fill the buffer; every subsegment index written is the index of the
\* table; and the numsegs field of the buffer returned is currentIdx.
FieldsHoldTrueValues ==
  Len(allbytes) >= 20 =>
    /\ \A r \in 1..Len(sentsegs) :
         LET seg == sentsegs[r]
             rec == From(allbytes, RecordOffset(r))
         IN /\ rec[2] = PayloadCount(seg)
            /\ 4 + rec[2] * PayloadWidth(seg) =
                 RecordOffset(r + 1) - RecordOffset(r)
            /\ seg.type = SegTypeComposition =>
                 \A c \in 1..Len(seg.Segments) :
                   Uint16(Slice(rec, 2 + 2 * c, 4 + 2 * c)) =
                     Lookup(segidx, Fingerprint(seg.Segments[c]))
    /\ RecordOffset(Len(sentsegs) + 1) = Len(allbytes)
    /\ EncodeReturned => Uint16(From(allbytes, 2)) = currentIdx

====
